---- MODULE Spec2Model ----
(***************************************************************************)
(* Client-side event-stream normalisation, task execution and browser      *)
(* control state machines of the Nova Act browser-control front end.       *)
(*                                                                         *)
(* React specifics the model keeps:                                        *)
(*  - a handler created in a render reads the state values of that render  *)
(*    (its closure), also after an await; such values are stored with the  *)
(*    handler's position (ctl, stopInFlight) when the handler starts;      *)
(*  - passive effects (useEffect) run in a later commit step, Commit;      *)
(*    push-channel messages may be handled before that step, user input    *)
(*    is handled after it;                                                 *)
(*  - refs (useRef) are read fresh.                                        *)
(***************************************************************************)
EXTENDS Integers, Sequences, FiniteSets, TLC

\* ---------------------------------------------------------------- bounds
MaxClock == 2
MaxWire == 1
MaxThoughts == 3
MaxStops == 2

NoSession == "none"
Sessions == {"A", "B"}
NoUrl == ""
Urls == {"https://a.test", "https://b.test"}

VARIABLES
  now,                 \* wall clock, in ticks of one second
  \* useChat
  sessionId, isThinking, thinkingStartTime, isLoading, isSubmitting,
  messages, submitReq,
  terminateReq,        \* sessions with a terminate request in flight
  \* useAgentControl
  canStopAgent, acIsLoading, isStopInProgress,
  stopInFlight,        \* closures of stop clicks whose request is unanswered
  stopCommands,        \* stop commands the backend has been sent
  episodeStops,        \* stop commands sent in the current thinking episode
  \* useThoughtProcess
  thoughts, thoughtsRef, connected, streamError, isComplete, screenshots,
  eventSourceRef, previousSessionRef,
  live,                \* sessions whose push channel is open (not closed)
  effSession,          \* the sessionId the session effects last ran with
  wire,                \* push-channel messages in flight, oldest first
  lastEv,              \* what the last step of the system was
  \* useBrowserControl, BrowserControl
  hasActiveSession, browserState, bcIsLoading, isUserControlInProgress,
  lastBrowserState, ctl, notes,
  statusReqs,          \* sessions with a browser-status request in flight
  remote               \* the remote browser process

chatVars == <<sessionId, isThinking, thinkingStartTime, isLoading, isSubmitting,
              messages, submitReq, terminateReq>>
agentVars == <<canStopAgent, acIsLoading, isStopInProgress, stopInFlight,
               stopCommands, episodeStops>>
streamVars == <<thoughts, thoughtsRef, connected, streamError, isComplete,
                screenshots, eventSourceRef, previousSessionRef, live, effSession,
                wire>>
browserVars == <<hasActiveSession, browserState, bcIsLoading,
                 isUserControlInProgress, lastBrowserState, ctl, notes, statusReqs,
                 remote>>
vars == <<now, chatVars, agentVars, streamVars, lastEv, browserVars>>

\* ------------------------------------------------------- inbound events
Ev(type, status, node, category, content) ==
  [type |-> type, status |-> status, fa |-> FALSE, node |-> node,
   category |-> category, content |-> content, tool |-> "", shot |-> FALSE,
   chart |-> FALSE, ts |-> 0, bad |-> "", img |-> ""]

EvStart == Ev("task_status", "start", "", "", "")
EvComplete == Ev("task_status", "complete", "", "", "")
EvStopped == Ev("task_status", "stopped", "", "", "")
EvHeartbeat == Ev("heartbeat", "", "Agent", "", "")
EvPing == Ev("ping", "", "", "", "")
EvConnected == Ev("connected", "", "", "", "")
EvError == Ev("error", "", "Agent", "", "boom")
EvStreamDone == Ev("complete", "", "complete", "", "")
EvAnswer == Ev("answer", "", "Answer", "result", "Done")
EvAnswerBare == Ev("", "", "Answer", "", "Done")
EvReasoning == Ev("reasoning", "", "Agent", "", "thinking about it")
EvChatter == Ev("metrics", "", "scheduler", "info", "noise")
EvCompleteFinal == [EvComplete EXCEPT !.fa = TRUE]
EvAnswerEmpty == Ev("answer", "", "Answer", "result", "")
EvChart == [Ev("visualization", "", "Agent", "visualization_data", "chart")
              EXCEPT !.chart = TRUE]
EvShot == [Ev("visualization", "", "Browser", "screenshot", "page")
             EXCEPT !.shot = TRUE, !.img = "png1"]
EvShotNext == [Ev("visualization", "", "Browser", "screenshot", "next page")
                 EXCEPT !.shot = TRUE, !.img = "png2"]

\* Events whose type, node or category alone is recognized.
EvOddNode == Ev("metrics", "", "Agent", "info", "kept for its node")
EvOddType == Ev("thought", "", "scheduler", "info", "kept for its type")
EvOddShot == Ev("metrics", "", "scheduler", "screenshot", "kept for its category")
EvOddControl == Ev("metrics", "", "scheduler", "user_control", "kept for its category")

\* Events for the rules of the normalizer: a tool call and a tool result that
\* name their tool, a reasoning event that brings its own category, a
\* user-control event that brings its own node, and events for the default
\* rule.
EvToolCall == [Ev("tool_call", "", "Router", "", "calling") EXCEPT !.tool = "act"]
EvToolResult == [Ev("tool_result", "", "Router", "", "") EXCEPT !.tool = "act"]
EvReasoningSetup == Ev("reasoning", "", "Agent", "setup", "preparing")
EvControlByBrowser == Ev("user_control", "", "Browser", "user_control", "taken")
EvRouter == Ev("thought", "", "Router", "", "routing")

\* Messages that make the handler throw: text that is not JSON, the JSON
\* value null, an event whose node is a number, and a screenshot event with
\* a url whose content is a number.
EvBadJson == [Ev("", "", "", "", "") EXCEPT !.bad = "json"]
EvNull == [Ev("", "", "", "", "") EXCEPT !.bad = "null"]
EvBadNode == [Ev("thought", "", "7", "", "odd node") EXCEPT !.bad = "node"]
EvShotBadContent == [Ev("thought", "", "Browser", "screenshot", "7")
                       EXCEPT !.shot = TRUE, !.bad = "content", !.img = "png0"]

\* A question that comes over the stream.
EvQuestion == Ev("question", "", "User", "user_input", "follow-up")

TaskEvents == {EvStart, EvComplete, EvStopped, EvAnswer}
StreamEvents == {EvStart, EvHeartbeat, EvPing, EvStreamDone, EvReasoning, EvChatter}
TimedEvents == {EvStart, EvAnswer, EvAnswerBare}
ChannelEvents == {EvConnected, EvError, EvStreamDone}
SessionEvents == {EvShot, EvReasoning}
NormalizeEvents == {EvShot, EvToolCall, EvToolResult, EvReasoning,
                    EvReasoningSetup, EvControlByBrowser, EvOddControl, EvRouter,
                    EvOddNode}
FaultyEvents == {EvBadJson, EvNull, EvBadNode, EvShotBadContent, EvReasoning,
                 EvStart}
AnswerTimeEvents == {EvQuestion, EvAnswer}
ShotEvents == {EvShot, EvShotNext, EvReasoning}
EpisodeEvents == {EvAnswer, EvComplete}
FilterEvents == {EvChatter, EvOddNode, EvOddType, EvOddShot, EvOddControl}
DoneEvents == {EvStart, EvComplete, EvCompleteFinal, EvAnswer, EvAnswerEmpty, EvChart}

\* ------------------------------------------------------------ utilities
\* shouldFilterEvent
validTypes == {"thought", "reasoning", "tool_call", "tool_result", "question",
               "visualization", "thinking", "rationale", "error", "answer",
               "result", "browser_status", "others", "user_control"}
validNodes == {"User", "Browser", "Agent", "NovaAct", "Answer", "complete",
               "Router", "Others", "User Control"}

shouldFilterEvent_NoHeartbeatRule(data) ==
  /\ data.type \notin validTypes
  /\ data.node \notin validNodes
  /\ data.category # "screenshot"
  /\ data.category # "visualization_data"
  /\ data.category # "user_control"

\* A filter that looks at the type alone.
shouldFilterEvent_TypeOnly(data) ==
  \/ data.type = "ping"
  \/ data.type = "heartbeat"
  \/ data.type \notin validTypes

shouldFilterEvent(data) ==
  \/ data.type = "ping"
  \/ data.type = "heartbeat"
  \/ /\ data.type \notin validTypes
     /\ data.node \notin validNodes
     /\ data.category # "screenshot"
     /\ data.category # "visualization_data"
     /\ data.category # "user_control"

\* The event types handleEventData returns on before the filter is asked.
Intercepted(data) == data.type \in {"task_status", "connected", "error", "complete"}

\* data.node?.toLowerCase().includes(...) over the node names of the model
NodeHasBrowser == {"Browser"}
NodeHasNovaOrAct == {"NovaAct"}
NodeHasAgentOrLlm == {"Agent"}

Or(a, b) == IF a # "" THEN a ELSE b

\* generateId: the prefix followed by the time and a random suffix, here one
\* fixed suffix; the result is never the empty string.
generateId(prefix) == prefix \o "-id"

normalizeThoughtData(data, ts) ==
  LET base == [id |-> generateId("thought"),
               type |-> data.type, node |-> data.node, category |-> data.category,
               content |-> data.content, ts |-> ts, pms |-> 0, shot |-> 0]
  IN
  IF data.type = "question"
  THEN [base EXCEPT !.id = generateId("user-question"),
                    !.node = "User", !.category = "user_input"]
  ELSE IF \/ data.type = "visualization"
          \/ data.category = "screenshot"
          \/ (data.category = "visualization_data" /\ data.shot)
  THEN [base EXCEPT !.id = generateId("browser-shot"),
                    !.type = "visualization", !.node = "Browser",
                    !.category = "screenshot",
                    !.content = Or(data.content, "Browser screenshot")]
  ELSE IF data.type = "tool_call" /\ data.tool # ""
  THEN [base EXCEPT !.id = generateId("agent-tool"),
                    !.node = "Agent", !.category = "tool"]
  ELSE IF data.type = "tool_result" /\ data.tool # ""
  THEN [base EXCEPT !.id = generateId("nova-result"),
                    !.node = "NovaAct", !.category = "tool",
                    !.content = Or(data.content, "Tool execution complete")]
  ELSE IF data.type \in {"reasoning", "thinking", "rationale"}
  THEN [base EXCEPT !.id = generateId("reasoning"),
                    !.type = "reasoning", !.node = Or(data.node, "Agent"),
                    !.category = Or(data.category, "analysis")]
  ELSE IF data.type = "user_control" \/ data.category = "user_control"
  THEN [base EXCEPT !.id = generateId("user-control"),
                    !.type = "user_control", !.node = Or(data.node, "User Control"),
                    !.category = "user_control"]
  ELSE IF data.node = "Others"
  THEN [base EXCEPT !.id = generateId("others-event")]
  ELSE [base EXCEPT !.type = Or(data.type, "reasoning"),
                    !.node = IF data.node \in NodeHasBrowser THEN "Browser"
                             ELSE IF data.node \in NodeHasNovaOrAct THEN "NovaAct"
                             ELSE IF data.node \in NodeHasAgentOrLlm THEN "Agent"
                             ELSE "Others"]


\* calculateProcessingTime (answer nodes): the Thought with its processing time.
\* Timestamps are in ticks of one second; processing_time_ms is kept in pms and
\* processing_time_sec is pms rounded to two decimals, counted in hundredths.
SecHundredths(ms) == (ms + 5) \div 10

LastQuestion(ths) ==
  LET qs == {i \in 1..Len(ths) : ths[i].node = "User" \/ ths[i].type = "question"}
  IN IF qs = {} THEN 0 ELSE CHOOSE i \in qs : \A j \in qs : j <= i

calculateProcessingTime(data, nt, ths) ==
  IF data.node = "Answer" \/ data.category = "result"
  THEN LET q == LastQuestion(ths)
           hasExistingAnswer ==
             q # 0 /\ \E i \in 1..Len(ths) :
                        /\ ths[i].node = "Answer" \/ ths[i].category = "result"
                        /\ SecHundredths(ths[i].pms) # 0
                        /\ ths[i].ts > ths[q].ts
           ms == IF q = 0 THEN 0 ELSE (nt.ts - ths[q].ts) * 1000
       IN IF q # 0 /\ ~hasExistingAnswer /\ ms > 0
          THEN [nt EXCEPT !.pms = ms]
          ELSE nt
  ELSE nt

\* A timeline entry: the normalized Thought and the channel it came from.
Entry(nt, src) ==
  [id |-> nt.id, type |-> nt.type, node |-> nt.node, category |-> nt.category,
   content |-> nt.content, ts |-> nt.ts, pms |-> nt.pms, shot |-> nt.shot,
   src |-> src]

\* resetThinkingTimer
resetThinkingTimer(st) == [st EXCEPT !.thinking = FALSE, !.start = 0]

\* useChat: the taskStatusUpdate subscription; sub is the session id of the
\* render that subscribed.
ChatOnTaskStatus_RestartTimer(status, evSid, sub, st, t) ==
  IF evSid # sub THEN st
  ELSE IF status = "start" THEN [st EXCEPT !.thinking = TRUE, !.start = t]
  ELSE IF status = "complete" THEN resetThinkingTimer(st)
  ELSE st

ChatOnTaskStatus(status, evSid, sub, st, t) ==
  IF evSid # sub THEN st
  ELSE IF status = "start" THEN [st EXCEPT !.thinking = TRUE]
  ELSE IF status = "complete" THEN resetThinkingTimer(st)
  ELSE st

\* useChat: the thoughtCompletion subscription.
ChatOnThoughtCompletion(type, content, evSid, sub, st) ==
  IF type \in {"answer", "result"} /\ evSid = sub /\ content # ""
  THEN [resetThinkingTimer(st) EXCEPT !.msgs = Append(st.msgs, "assistant")]
  ELSE st

\* useChat: the visualizationReady subscription.
ChatOnVisualizationReady(st) ==
  [resetThinkingTimer(st) EXCEPT !.msgs = Append(st.msgs, "visualization")]

\* BrowserControl: the taskStatusUpdate subscription, present while the
\* component has a session id.
BrowserOnTaskStatus(status, subscribed, ag) ==
  IF ~subscribed THEN ag
  ELSE IF status = "start" THEN [ag EXCEPT !.canStop = TRUE]
  ELSE IF status \in {"complete", "stopped"}
  THEN [ag EXCEPT !.canStop = FALSE, !.inProgress = FALSE]
  ELSE ag

\* handleEventData: which task-status update, if any, a task_status event is
\* forwarded as.
ForwardedStatus(data) ==
  IF data.status = "start" THEN "start"
  ELSE IF data.status = "complete" \/ data.fa THEN "complete"
  ELSE "dropped"

\* The "Stop Agent" menu item is enabled.
StopEnabled == isThinking /\ canStopAgent /\ ~isStopInProgress

\* A render and its passive effects are still to come.
PendingCommit == sessionId # effSession \/ thoughtsRef # thoughts

ChatState == [thinking |-> isThinking, start |-> thinkingStartTime, msgs |-> messages]
AgentState == [canStop |-> canStopAgent, inProgress |-> isStopInProgress]

NoBrowserState == [present |-> FALSE, is_headless |-> FALSE, current_url |-> NoUrl]
NoRequest == [pc |-> "none", sid |-> NoSession]
\* The control handlers that can be in flight at once.
Handlers == {"h1", "h2"}
IdleCtl == [pc |-> "idle", hadActive |-> FALSE, saved |-> NoUrl, polled |-> "none"]

Init ==
  /\ now = 1
  /\ sessionId = NoSession /\ isThinking = FALSE /\ thinkingStartTime = 0
  /\ isLoading = FALSE /\ isSubmitting = FALSE /\ messages = <<>>
  /\ submitReq = NoRequest /\ terminateReq = {}
  /\ canStopAgent = FALSE /\ acIsLoading = FALSE /\ isStopInProgress = FALSE
  /\ stopInFlight = 0 /\ stopCommands = 0 /\ episodeStops = 0
  /\ thoughts = <<>> /\ thoughtsRef = <<>> /\ connected = FALSE
  /\ streamError = FALSE /\ isComplete = FALSE /\ screenshots = {}
  /\ eventSourceRef = NoSession /\ previousSessionRef = NoSession /\ live = {}
  /\ effSession = NoSession /\ wire = <<>> /\ lastEv = "init"
  /\ hasActiveSession = FALSE /\ browserState = NoBrowserState
  /\ bcIsLoading = FALSE /\ isUserControlInProgress = FALSE
  /\ lastBrowserState = NoUrl /\ ctl = [h \in Handlers |-> IdleCtl] /\ notes = {}
  /\ statusReqs = {}
  /\ remote = [alive |-> FALSE, headless |-> TRUE, url |-> NoUrl]


\* ------------------------------------------------------------- the clock
Tick ==
  /\ now < MaxClock
  /\ now' = now + 1
  /\ UNCHANGED <<chatVars, agentVars, streamVars, lastEv, browserVars>>

\* ------------------------------------------------- useChat: handleSubmit
\* A submit guard that looks at the input only.
SubmitGuard_InputOnly(hasInput, submitting, thinking, loading) == hasInput

\* The two early returns of handleSubmit: the handler goes on only when no
\* submission is in progress, the task is not thinking, there is input and
\* nothing is loading.
SubmitGuard(hasInput, submitting, thinking, loading) ==
  ~(submitting \/ thinking) /\ ~(~hasInput \/ loading)

\* An update that puts the new entry in front of the timeline.
updateThoughts_Prepend(ths, t) ==
  <<[t EXCEPT !.id = Or(t.id, generateId("thought"))]>> \o ths

\* updateThoughts: the entry, given an id if it has none, goes to the end of
\* the timeline.
updateThoughts(ths, t) ==
  Append(ths, [t EXCEPT !.id = Or(t.id, generateId("thought"))])

\* A userMessageAdded subscription that drops the question.
userMessageAdded_Dropped(ths, t) == ths

\* useThoughtProcess: the userMessageAdded subscription appends the question
\* to the timeline; the dispatch is synchronous.
userMessageAdded(ths, t) ==
  updateThoughts(ths, Entry([id |-> generateId("user-question"),
                             type |-> "question", node |-> "User",
                             category |-> "user_input", content |-> "ask",
                             ts |-> t, pms |-> 0, shot |-> 0], "local"))

\* handleSubmit returns early: nothing is written (isSubmitting is set and
\* cleared again on the second return).
SubmitIgnored(hasInput) ==
  /\ ~PendingCommit
  /\ ~SubmitGuard(hasInput, isSubmitting, isThinking, isLoading)
  /\ lastEv' = "ignored"
  /\ UNCHANGED <<now, chatVars, agentVars, streamVars, browserVars>>

\* Up to the await of the router request.  The input is non-empty.
Submit ==
  /\ SubmitGuard(TRUE, isSubmitting, isThinking, isLoading)
  /\ ~isUserControlInProgress
  /\ ~PendingCommit
  /\ Len(thoughts) < MaxThoughts /\ Len(messages) < MaxThoughts
  /\ isSubmitting' = TRUE
  /\ messages' = Append(messages, "user")
  /\ thoughts' = userMessageAdded(thoughts, now)
  /\ isLoading' = TRUE /\ isThinking' = TRUE /\ thinkingStartTime' = now
  /\ submitReq' = [pc |-> "sent", sid |-> sessionId]
  /\ episodeStops' = 0
  /\ lastEv' = "other"
  /\ UNCHANGED <<now, sessionId, canStopAgent, acIsLoading, isStopInProgress,
                 stopInFlight, stopCommands, thoughtsRef, connected, streamError,
                 isComplete, screenshots, eventSourceRef, previousSessionRef,
                 live, effSession, wire, browserVars>>
  /\ UNCHANGED terminateReq

\* A catch block that reports the error and leaves the task state alone.
SubmitFailed_NoReset(st) == [st EXCEPT !.msgs = Append(st.msgs, "error")]

\* The catch block of handleSubmit: an error message and resetThinkingTimer.
SubmitFailed(st) ==
  [resetThinkingTimer(st) EXCEPT !.msgs = Append(st.msgs, "error")]

\* The router answers (or fails to): try / catch / finally of handleSubmit.
\*   neterr  - the request failed or the response was not ok
\*   badtool - a response whose answering_tool has no handler
\*   ok      - a handled response, with a direct answer or "processing"
SubmitResponse(outcome, sid, direct) ==
  /\ submitReq.pc = "sent"
  /\ sessionId' = IF outcome # "neterr" /\ sid # NoSession THEN sid ELSE sessionId
  /\ LET st == IF outcome = "ok"
               THEN IF direct
                    THEN [resetThinkingTimer(ChatState)
                            EXCEPT !.msgs = Append(messages, "assistant")]
                    ELSE ChatState
               ELSE SubmitFailed(ChatState)
     IN /\ isThinking' = st.thinking
        /\ messages' = st.msgs
  /\ thinkingStartTime' = 0
  /\ isLoading' = FALSE
  /\ submitReq' = [pc |-> "cooldown", sid |-> NoSession]
  /\ lastEv' = "other"
  /\ UNCHANGED <<now, isSubmitting, agentVars, streamVars, browserVars>>
  /\ UNCHANGED terminateReq

\* The 500 ms timer of the finally block.
SubmitCooldown ==
  /\ submitReq.pc = "cooldown"
  /\ isSubmitting' = FALSE
  /\ submitReq' = NoRequest
  /\ UNCHANGED <<now, sessionId, isThinking, thinkingStartTime, isLoading, messages,
                 agentVars, streamVars, lastEv, browserVars>>
  /\ UNCHANGED terminateReq

\* A clearing of the conversation that keeps the session id.
ClearConversation_KeepsSession(sid) ==
  [msgs |-> <<>>, thinking |-> FALSE, sid |-> sid, start |-> 0]

\* What handleReset and a successful terminateSession set: no messages, not
\* thinking, no session id, no start marker.
ClearConversation(sid) ==
  [msgs |-> <<>>, thinking |-> FALSE, sid |-> NoSession, start |-> 0]

\* handleReset
Reset ==
  /\ ~PendingCommit
  /\ sessionId # NoSession \/ messages # <<>>
  /\ LET r == ClearConversation(sessionId)
     IN /\ messages' = r.msgs /\ isThinking' = r.thinking
        /\ sessionId' = r.sid /\ thinkingStartTime' = r.start
  /\ lastEv' = "reset"
  /\ UNCHANGED <<now, isLoading, isSubmitting, submitReq, terminateReq, agentVars,
                 streamVars, browserVars>>

\* terminateSession up to the await: the DELETE request for the session of
\* the render the handler was created in.
TerminateCall ==
  /\ ~PendingCommit
  /\ sessionId # NoSession /\ sessionId \notin terminateReq
  /\ terminateReq' = terminateReq \cup {sessionId}
  /\ lastEv' = "other"
  /\ UNCHANGED <<now, sessionId, isThinking, thinkingStartTime, isLoading,
                 isSubmitting, messages, submitReq, agentVars, streamVars,
                 browserVars>>

\* The terminate request for session sid is answered (ok: status 'success').
TerminateResponse(sid, ok) ==
  /\ sid \in terminateReq
  /\ terminateReq' = terminateReq \ {sid}
  /\ IF ok
     THEN LET r == ClearConversation(sessionId)
          IN /\ messages' = r.msgs /\ isThinking' = r.thinking
             /\ sessionId' = r.sid /\ thinkingStartTime' = r.start
     ELSE UNCHANGED <<messages, isThinking, sessionId, thinkingStartTime>>
  /\ lastEv' = IF ok THEN "terminated" ELSE "terminate_failed"
  /\ UNCHANGED <<now, isLoading, isSubmitting, submitReq, agentVars, streamVars,
                 browserVars>>

\* ------------------------------------------------ the passive effects
\* A session effect that never closes the channel it replaces.
SessionEffect_KeepsOldChannel(sid, prev, ref, lv, ths, shots) ==
  IF sid # NoSession /\ sid # prev
  THEN [chan |-> sid, prev |-> sid, live |-> lv \cup {sid},
        thoughts |-> IF prev # NoSession THEN <<>> ELSE ths,
        screenshots |-> IF prev # NoSession THEN {} ELSE shots,
        opened |-> TRUE]
  ELSE [chan |-> NoSession, prev |-> prev, live |-> lv, thoughts |-> ths,
        screenshots |-> shots, opened |-> FALSE]

\* useThoughtProcess: the session effect.  The cleanup of the earlier run
\* closes the channel eventSourceRef holds (ref) and empties the ref; the body
\* opens a channel for a session id that differs from previousSessionRef.
SessionEffect(sid, prev, ref, lv, ths, shots) ==
  IF sid # NoSession /\ sid # prev
  THEN [chan |-> sid, prev |-> sid, live |-> (lv \ {ref}) \cup {sid},
        thoughts |-> IF prev # NoSession THEN <<>> ELSE ths,
        screenshots |-> IF prev # NoSession THEN {} ELSE shots,
        opened |-> TRUE]
  ELSE [chan |-> NoSession, prev |-> prev, live |-> lv \ {ref}, thoughts |-> ths,
        screenshots |-> shots, opened |-> FALSE]

\* One commit: the thoughtsRef effect, the useChat marker effect and, when the
\* session id changed, the session effects of useThoughtProcess, useChat,
\* BrowserControl and useBrowserControl (which asks for the browser status).
Commit ==
  /\ PendingCommit
  /\ thoughtsRef' = thoughts
  /\ thinkingStartTime' = IF ~isThinking THEN 0 ELSE thinkingStartTime
  /\ IF sessionId # effSession
     THEN LET e == SessionEffect(sessionId, previousSessionRef, eventSourceRef, live,
                                 thoughts, screenshots)
          IN /\ eventSourceRef' = e.chan
             /\ live' = e.live
             /\ previousSessionRef' = e.prev
             /\ thoughts' = e.thoughts
             /\ screenshots' = e.screenshots
             /\ streamError' = IF e.opened THEN FALSE ELSE streamError
             /\ isComplete' = IF e.opened THEN FALSE ELSE isComplete
             /\ effSession' = sessionId
     ELSE UNCHANGED <<eventSourceRef, previousSessionRef, live, thoughts,
                      screenshots, streamError, isComplete, effSession>>
  /\ IF sessionId = effSession
     THEN UNCHANGED <<hasActiveSession, browserState, statusReqs>>
     ELSE IF sessionId = NoSession
     THEN /\ hasActiveSession' = FALSE
          /\ browserState' = NoBrowserState
          /\ UNCHANGED statusReqs
     ELSE /\ statusReqs' = statusReqs \cup {sessionId}
          /\ UNCHANGED <<hasActiveSession, browserState>>
  /\ UNCHANGED <<now, sessionId, isThinking, isLoading, isSubmitting, messages,
                 submitReq, terminateReq, agentVars, connected, wire, lastEv, bcIsLoading,
                 isUserControlInProgress, lastBrowserState, ctl, notes, remote>>


\* ------------------------------------------------------ the push channel
\* The backend pushes an event on an open channel.
Emit(e) ==
  /\ Len(wire) < MaxWire
  /\ \E c \in live :
       wire' = Append(wire, [sid |-> c, ev |-> [e EXCEPT !.ts = now]])
  /\ UNCHANGED <<now, chatVars, agentVars, thoughts, thoughtsRef, connected,
                 streamError, isComplete, screenshots, eventSourceRef,
                 previousSessionRef, live, effSession, lastEv, browserVars>>

\* A message of a channel that was closed is never handed to onmessage.
\* The backend pushes an event that carries no timestamp.
EmitUnstamped(e) ==
  /\ Len(wire) < MaxWire
  /\ \E c \in live : wire' = Append(wire, [sid |-> c, ev |-> e])
  /\ UNCHANGED <<now, chatVars, agentVars, thoughts, thoughtsRef, connected,
                 streamError, isComplete, screenshots, eventSourceRef,
                 previousSessionRef, live, effSession, lastEv, browserVars>>

DropClosed ==
  /\ wire # <<>>
  /\ Head(wire).sid \notin live
  /\ wire' = Tail(wire)
  /\ UNCHANGED <<now, chatVars, agentVars, thoughts, thoughtsRef, connected,
                 streamError, isComplete, screenshots, eventSourceRef,
                 previousSessionRef, live, effSession, lastEv, browserVars>>

\* onopen of an open channel.
ChannelOpen ==
  /\ live # {}
  /\ connected' = TRUE /\ streamError' = FALSE
  /\ lastEv' = "open"
  /\ UNCHANGED <<now, chatVars, agentVars, thoughts, thoughtsRef, isComplete,
                 screenshots, eventSourceRef, previousSessionRef, live, effSession,
                 wire, browserVars>>

\* An onerror that reports every transport error as a lost connection.
onerror_AnyState(closed, conn, err) == [connected |-> FALSE, error |-> TRUE]

\* onerror: the flags change only when readyState is CLOSED.
onerror(closed, conn, err) ==
  IF closed THEN [connected |-> FALSE, error |-> TRUE]
  ELSE [connected |-> conn, error |-> err]

\* The transport of channel c fails.  The browser either gives the connection
\* up (readyState CLOSED, nothing more is delivered) or retries it
\* (readyState CONNECTING); onerror runs in both cases.
ChannelError(c, closed) ==
  /\ c \in live
  /\ live' = IF closed THEN live \ {c} ELSE live
  /\ LET r == onerror(closed, connected, streamError)
     IN connected' = r.connected /\ streamError' = r.error
  /\ lastEv' = IF closed THEN "transport_closed" ELSE "transport_retry"
  /\ UNCHANGED <<now, chatVars, agentVars, thoughts, thoughtsRef, isComplete,
                 screenshots, eventSourceRef, previousSessionRef, effSession,
                 wire, browserVars>>

\* handleEventData for a task_status event: the update is dispatched to the
\* subscriptions of useChat and BrowserControl.
HandleTaskStatus(data, sid) ==
  LET fwd == ForwardedStatus(data)
      st == IF fwd = "dropped" THEN ChatState
            ELSE ChatOnTaskStatus(fwd, sid, effSession, ChatState, now)
      ag == IF fwd = "dropped" THEN AgentState
            ELSE BrowserOnTaskStatus(fwd, effSession # NoSession, AgentState)
  IN /\ isThinking' = st.thinking
     /\ thinkingStartTime' = st.start
     /\ messages' = st.msgs
     /\ canStopAgent' = ag.canStop
     /\ isStopInProgress' = ag.inProgress
     /\ episodeStops' = IF st.thinking /\ ~isThinking THEN 0 ELSE episodeStops
     /\ UNCHANGED <<thoughts, connected, streamError, isComplete, screenshots>>

\* handleEventData for connected, error and complete.
HandleConnection(data) ==
  /\ connected' = IF data.type = "connected" THEN TRUE ELSE connected
  /\ streamError' = IF data.type = "connected" THEN FALSE
                    ELSE IF data.type = "error" THEN TRUE ELSE streamError
  /\ isComplete' = IF data.type = "complete" THEN TRUE ELSE isComplete
  /\ UNCHANGED <<isThinking, thinkingStartTime, messages, canStopAgent,
                 isStopInProgress, episodeStops, thoughts, screenshots>>

\* handleEventData for every other event that passes the filter.
\* setScreenshots(prev => ({...prev, [screenshotId]: data})): the entry under
\* the key, if there is one, is replaced.
storeScreenshot(shots, key, img) ==
  {s \in shots : s.key # key} \cup {[key |-> key, data |-> img]}

HandleThought(data, sid) ==
  LET ts == IF data.ts = 0 THEN now ELSE data.ts
      n0 == calculateProcessingTime(data, normalizeThoughtData(data, ts), thoughtsRef)
      store == /\ data.category \in {"screenshot", "visualization_data"}
               /\ data.shot
      nt == IF store THEN [n0 EXCEPT !.shot = now] ELSE n0
      st1 == IF data.category = "visualization_data" /\ data.chart
             THEN LET v == ChatOnVisualizationReady(ChatState)
                  IN IF sid # NoSession
                     THEN ChatOnThoughtCompletion("result", "Visualization generated",
                                                  sid, effSession, v)
                     ELSE v
             ELSE ChatState
      st2 == IF /\ sid # NoSession
                /\ \/ data.node = "Answer" \/ data.category = "result"
                   \/ data.type \in {"answer", "result"}
             THEN ChatOnThoughtCompletion("answer", nt.content, sid, effSession, st1)
             ELSE st1
  IN /\ screenshots' = IF store THEN storeScreenshot(screenshots, now, data.img)
                      ELSE screenshots
     /\ isThinking' = st2.thinking
     /\ thinkingStartTime' = st2.start
     /\ messages' = st2.msgs
     /\ thoughts' = updateThoughts(thoughts, Entry(nt, sid))
     /\ UNCHANGED <<canStopAgent, isStopInProgress, episodeStops, connected,
                    streamError, isComplete>>

\* onmessage of an open channel: handleEventData with the session id of the
\* render that opened the channel.
\* Where the handling of a message throws: "parse" in JSON.parse or at the
\* first property read of a null, "normalize" at node.toLowerCase() of the
\* default rule, "store" at content.includes(url) after the screenshot was
\* stored; "none" when it does not throw.
Throws(data) ==
  IF data.bad \in {"json", "null"} THEN "parse"
  ELSE IF Intercepted(data) \/ shouldFilterEvent(data) THEN "none"
  ELSE IF /\ data.bad = "node"
          /\ data.type # "question"
          /\ ~(\/ data.type = "visualization" \/ data.category = "screenshot"
               \/ (data.category = "visualization_data" /\ data.shot))
          /\ ~(data.type \in {"tool_call", "tool_result"} /\ data.tool # "")
          /\ data.type \notin {"reasoning", "thinking", "rationale"}
          /\ ~(data.type = "user_control" \/ data.category = "user_control")
  THEN "normalize"
  ELSE IF /\ data.bad = "content"
          /\ data.category \in {"screenshot", "visualization_data"} /\ data.shot
  THEN "store"
  ELSE "none"

\* A catch block that closes the channel the message came on.
caught_ClosesChannel(chs, c) == chs \ {c}

\* The catch blocks of onmessage and handleEventData log the error; the
\* channels stay as they are.
caught(chs, c) == chs

Deliver ==
  /\ wire # <<>>
  /\ Head(wire).sid \in live
  /\ Len(thoughts) < MaxThoughts
  /\ LET data == Head(wire).ev
         sid == Head(wire).sid
     IN /\ IF Throws(data) # "none"
           THEN /\ screenshots' = IF Throws(data) = "store"
                                  THEN storeScreenshot(screenshots, now, data.img)
                                  ELSE screenshots
                /\ UNCHANGED <<isThinking, thinkingStartTime, messages, canStopAgent,
                               isStopInProgress, episodeStops, thoughts, connected,
                               streamError, isComplete>>
           ELSE IF data.type = "task_status" THEN HandleTaskStatus(data, sid)
           ELSE IF Intercepted(data) THEN HandleConnection(data)
           ELSE IF shouldFilterEvent(data)
           THEN UNCHANGED <<isThinking, thinkingStartTime, messages, canStopAgent,
                            isStopInProgress, episodeStops, thoughts, connected,
                            streamError, isComplete, screenshots>>
           ELSE HandleThought(data, sid)
        /\ live' = IF Throws(data) # "none" THEN caught(live, sid) ELSE live
        /\ lastEv' = IF Throws(data) # "none" THEN "failed"
                     ELSE IF data.type # "task_status"
                     THEN IF ~Intercepted(data) /\ shouldFilterEvent(data)
                          THEN "filtered" ELSE "other"
                     ELSE IF data.status = "start" /\ lastEv \in {"start", "start_again"}
                     THEN "start_again"
                     ELSE data.status
  /\ wire' = Tail(wire)
  /\ UNCHANGED <<now, sessionId, isLoading, isSubmitting, submitReq, terminateReq, acIsLoading,
                 stopInFlight, stopCommands, thoughtsRef, eventSourceRef,
                 previousSessionRef, effSession, browserVars>>

\* ------------------------------------------------------------ stop agent
\* useChat.stopAgent as the click's render bound it (isThinking was true),
\* with the 'stopped' update it dispatches.
ChatStopAgent(st) == [st EXCEPT !.thinking = FALSE, !.start = 0]

\* handleStopAgent after the stop request was answered (ok: response.ok).
AfterStop(ok, ag) ==
  BrowserOnTaskStatus("stopped", effSession # NoSession,
                      [ag EXCEPT !.inProgress = IF ok THEN TRUE ELSE ag.inProgress])

\* A click on "Stop Agent": handleStopAgent up to the await in stopAgent.
StopClick ==
  /\ StopEnabled
  /\ ~PendingCommit
  /\ stopCommands < MaxStops
  /\ IF sessionId = NoSession
     THEN LET st == ChatStopAgent(ChatState)
              ag == AfterStop(FALSE, AgentState)
          IN /\ isThinking' = st.thinking /\ thinkingStartTime' = st.start
             /\ canStopAgent' = ag.canStop /\ isStopInProgress' = ag.inProgress
             /\ UNCHANGED <<acIsLoading, stopInFlight, stopCommands, episodeStops>>
     ELSE /\ acIsLoading' = TRUE
          /\ stopInFlight' = stopInFlight + 1
          /\ stopCommands' = stopCommands + 1
          /\ episodeStops' = episodeStops + 1
          /\ UNCHANGED <<isThinking, thinkingStartTime, canStopAgent, isStopInProgress>>
  /\ lastEv' = "other"
  /\ UNCHANGED <<now, sessionId, isLoading, isSubmitting, messages, submitReq, terminateReq,
                 streamVars, browserVars>>

\* The stop request is answered: the rest of stopAgent, then onStopAgent.
StopResponse(ok) ==
  /\ stopInFlight > 0
  /\ stopInFlight' = stopInFlight - 1
  /\ acIsLoading' = FALSE
  /\ LET st == ChatStopAgent(ChatState)
         ag == AfterStop(ok, AgentState)
     IN /\ isThinking' = st.thinking /\ thinkingStartTime' = st.start
        /\ canStopAgent' = ag.canStop /\ isStopInProgress' = ag.inProgress
  /\ lastEv' = "other"
  /\ UNCHANGED <<now, sessionId, isLoading, isSubmitting, messages, submitReq, terminateReq,
                 stopCommands, episodeStops, streamVars, browserVars>>

\* -------------------------------------------------------- browser control
\* checkBrowserStatus: what one answer of the status endpoint leaves in
\* hasActiveSession and browserState.
\*   http_fail    - the request failed or the response was not ok
\*   error_status - an answer whose status is not 'success'
\*   success      - has_active_session, and browser_state when a browser exists
checkBrowserStatus(outcome, rem, bs) ==
  IF outcome = "http_fail" THEN [active |-> FALSE, state |-> bs]
  ELSE IF outcome = "error_status" THEN [active |-> FALSE, state |-> NoBrowserState]
  ELSE [active |-> rem.alive,
        state |-> IF rem.alive
                  THEN [present |-> TRUE, is_headless |-> rem.headless,
                        current_url |-> rem.url]
                  ELSE bs]

StatusOutcomes == {"http_fail", "error_status", "success"}

\* The backend's agent starts a headless browser, or navigates it.
RemoteNavigate(u) ==
  /\ ~remote.alive \/ (remote.headless /\ remote.url # u)
  /\ remote' = [alive |-> TRUE, headless |-> TRUE, url |-> u]
  /\ UNCHANGED <<now, chatVars, agentVars, streamVars, lastEv, hasActiveSession,
                 browserState, bcIsLoading, isUserControlInProgress,
                 lastBrowserState, ctl, notes, statusReqs>>

\* The backend starts a headless browser that has not opened a page yet: its
\* current_url is empty.
RemoteStart ==
  /\ ~remote.alive
  /\ remote' = [alive |-> TRUE, headless |-> TRUE, url |-> NoUrl]
  /\ UNCHANGED <<now, chatVars, agentVars, streamVars, lastEv, hasActiveSession,
                 browserState, bcIsLoading, isUserControlInProgress,
                 lastBrowserState, ctl, notes, statusReqs>>

\* The browser process goes away (the human closes the visible window).
RemoteBrowserDies ==
  /\ remote.alive
  /\ remote' = [remote EXCEPT !.alive = FALSE]
  /\ UNCHANGED <<now, chatVars, agentVars, streamVars, lastEv, hasActiveSession,
                 browserState, bcIsLoading, isUserControlInProgress,
                 lastBrowserState, ctl, notes, statusReqs>>

\* handleDropdownOpenChange(true): refreshStatus is started, not awaited.
RefreshStatus ==
  /\ ~isThinking /\ sessionId # NoSession /\ ~PendingCommit
  /\ sessionId \notin statusReqs
  /\ statusReqs' = statusReqs \cup {sessionId}
  /\ UNCHANGED <<now, chatVars, agentVars, streamVars, lastEv, hasActiveSession,
                 browserState, bcIsLoading, isUserControlInProgress,
                 lastBrowserState, ctl, notes, remote>>

\* The status endpoint answers a request of the session effect or the menu.
StatusResponse(sid, outcome) ==
  /\ sid \in statusReqs
  /\ statusReqs' = statusReqs \ {sid}
  /\ LET r == checkBrowserStatus(outcome, remote, browserState)
     IN hasActiveSession' = r.active /\ browserState' = r.state
  /\ UNCHANGED <<now, chatVars, agentVars, streamVars, lastEv, bcIsLoading,
                 isUserControlInProgress, lastBrowserState, ctl, notes, remote>>

\* A click on "Take Control": handleTakeControl up to the await in takeControl.
\* The item is shown when idle and browserState.is_headless, and enabled with
\* hasActiveSession; a request in flight does not disable it.  h is a handler
\* that is not running.
TakeControlClick(h) ==
  /\ ~isThinking /\ ~PendingCommit
  /\ browserState.present /\ browserState.is_headless
  /\ hasActiveSession /\ sessionId # NoSession
  /\ ctl[h].pc = "idle"
  /\ lastBrowserState' = IF browserState.current_url # NoUrl
                         THEN browserState.current_url ELSE lastBrowserState
  /\ bcIsLoading' = TRUE /\ isUserControlInProgress' = TRUE
  /\ ctl' = [ctl EXCEPT ![h] = [IdleCtl EXCEPT !.pc = "take"]]
  /\ notes' = {}
  /\ UNCHANGED <<now, chatVars, agentVars, streamVars, lastEv, hasActiveSession,
                 browserState, statusReqs, remote>>

\* A finally block that leaves the flags as they are.
controlFinally_KeepsFlags(loading, inProgress) ==
  [loading |-> loading, inProgress |-> inProgress]

\* The finally block of takeControl and releaseControl.
controlFinally(loading, inProgress) == [loading |-> FALSE, inProgress |-> FALSE]

\* The take-control request is answered; the backend shows the browser only
\* if there is one.
TakeControlResponse(h, ok, status) ==
  /\ ctl[h].pc = "take"
  /\ ok => remote.alive
  /\ IF ok
     THEN LET rem == [remote EXCEPT !.headless = FALSE]
              r == checkBrowserStatus(status, rem, browserState)
          IN /\ remote' = rem
             /\ hasActiveSession' = r.active /\ browserState' = r.state
             /\ notes' = {"manual_control", "control_taken"}
     ELSE /\ notes' = {"take_control_error"}
          /\ UNCHANGED <<remote, hasActiveSession, browserState>>
  /\ LET f == controlFinally(bcIsLoading, isUserControlInProgress)
     IN bcIsLoading' = f.loading /\ isUserControlInProgress' = f.inProgress
  /\ ctl' = [ctl EXCEPT ![h] = IdleCtl]
  /\ UNCHANGED <<now, chatVars, agentVars, streamVars, lastEv, lastBrowserState,
                 statusReqs>>

\* A click on "Release Control": handleReleaseControl up to the await in
\* releaseControl.  The handler keeps the hasActiveSession and lastBrowserState
\* of the render it was created in.
ReleaseControlClick(h) ==
  /\ ~isThinking /\ ~PendingCommit
  /\ ~(browserState.present /\ browserState.is_headless)
  /\ hasActiveSession /\ sessionId # NoSession
  /\ ctl[h].pc = "idle"
  /\ bcIsLoading' = TRUE /\ isUserControlInProgress' = TRUE
  /\ ctl' = [ctl EXCEPT ![h] = [pc |-> "release", hadActive |-> hasActiveSession,
                              saved |-> lastBrowserState, polled |-> "none"]]
  /\ notes' = {}
  /\ UNCHANGED <<now, chatVars, agentVars, streamVars, lastEv, hasActiveSession,
                 browserState, lastBrowserState, statusReqs, remote>>

\* The release request is answered.  On failure the handler asks for the
\* browser status again.
ReleaseControlResponse(h, ok, status) ==
  /\ ctl[h].pc = "release"
  /\ ok => remote.alive
  /\ IF ok
     THEN LET rem == [remote EXCEPT !.headless = TRUE]
              r == checkBrowserStatus(status, rem, browserState)
          IN /\ remote' = rem
             /\ hasActiveSession' = r.active /\ browserState' = r.state
             /\ notes' = {"control_released"}
             /\ ctl' = [ctl EXCEPT ![h] = IdleCtl]
     ELSE /\ notes' = {"release_control_error"}
          /\ ctl' = [ctl EXCEPT ![h].pc = "repoll"]
          /\ UNCHANGED <<remote, hasActiveSession, browserState>>
  /\ LET f == controlFinally(bcIsLoading, isUserControlInProgress)
     IN bcIsLoading' = f.loading /\ isUserControlInProgress' = f.inProgress
  /\ UNCHANGED <<now, chatVars, agentVars, streamVars, lastEv, lastBrowserState,
                 statusReqs>>

\* The awaited refreshStatus of the failure path is answered; the handler then
\* waits one second.
ReleaseRepolled(h, status) ==
  /\ ctl[h].pc = "repoll"
  /\ LET r == checkBrowserStatus(status, remote, browserState)
     IN /\ hasActiveSession' = r.active /\ browserState' = r.state
        /\ ctl' = [ctl EXCEPT ![h].pc = "decide",
                              ![h].polled = IF status # "success" THEN "failed"
                                            ELSE IF r.active THEN "active"
                                            ELSE "inactive"]
  /\ UNCHANGED <<now, chatVars, agentVars, streamVars, lastEv, bcIsLoading,
                 isUserControlInProgress, lastBrowserState, notes, statusReqs,
                 remote>>

\* What the handler does after the wait, given the values it reads: recover
\* (initializeBrowser headless at the saved URL, which may fail) or give up.
ReleaseDecision_AlwaysRecover(seesActive, saved) == "recover"

ReleaseDecision(seesActive, saved) ==
  IF ~seesActive /\ saved # NoUrl THEN "recover" ELSE "rethrow"

ReleaseDecide(h, initOk, status) ==
  /\ ctl[h].pc = "decide"
  /\ IF ReleaseDecision(ctl[h].hadActive, ctl[h].saved) = "recover"
     THEN IF initOk
          THEN LET rem == [alive |-> TRUE, headless |-> TRUE, url |-> ctl[h].saved]
                   r == checkBrowserStatus(status, rem, browserState)
               IN /\ remote' = rem
                  /\ hasActiveSession' = r.active /\ browserState' = r.state
                  /\ notes' = notes \cup {"recovery", "initialized", "recovered"}
                  /\ lastBrowserState' = NoUrl
          ELSE /\ notes' = notes \cup {"recovery", "initialize_error",
                                       "release_failed"}
               /\ UNCHANGED <<remote, hasActiveSession, browserState,
                              lastBrowserState>>
     ELSE /\ notes' = notes \cup {"release_failed"}
          /\ UNCHANGED <<remote, hasActiveSession, browserState, lastBrowserState>>
  /\ ctl' = [ctl EXCEPT ![h].pc = "idle"]
  /\ UNCHANGED <<now, chatVars, agentVars, streamVars, lastEv, bcIsLoading,
                 isUserControlInProgress, statusReqs>>

\* A "Close Browser" item that is disabled only while something is loading.
closeDisabled_LoadingOnly(thinking, active, loading) == loading

\* The disabled condition of the "Close Browser" menu item.
closeDisabled(thinking, active, loading) == thinking \/ ~active \/ loading

\* A click on "Close Browser": handleCloseBrowser up to the await in
\* closeBrowser.  h is a handler that is not running.
CloseBrowserClick(h) ==
  /\ ~PendingCommit
  /\ ~closeDisabled(isThinking, hasActiveSession, bcIsLoading)
  /\ sessionId # NoSession
  /\ ctl[h].pc = "idle"
  /\ bcIsLoading' = TRUE
  /\ ctl' = [ctl EXCEPT ![h] = [IdleCtl EXCEPT !.pc = "close"]]
  /\ notes' = {}
  /\ UNCHANGED <<now, chatVars, agentVars, streamVars, lastEv, hasActiveSession,
                 browserState, isUserControlInProgress, lastBrowserState,
                 statusReqs, remote>>

\* The close_browser call is answered; after a success the handler asks for
\* the browser status.
CloseBrowserResponse(h, ok, status) ==
  /\ ctl[h].pc = "close"
  /\ IF ok
     THEN LET rem == [remote EXCEPT !.alive = FALSE]
              r == checkBrowserStatus(status, rem, browserState)
          IN /\ remote' = rem
             /\ hasActiveSession' = r.active /\ browserState' = r.state
             /\ notes' = {"browser_closed"}
     ELSE /\ notes' = {"browser_close_error"}
          /\ UNCHANGED <<remote, hasActiveSession, browserState>>
  /\ bcIsLoading' = FALSE
  /\ ctl' = [ctl EXCEPT ![h] = IdleCtl]
  /\ UNCHANGED <<now, chatVars, agentVars, streamVars, lastEv,
                 isUserControlInProgress, lastBrowserState, statusReqs>>

\* The task execution machine on one session, with the clock standing still.
NextTask ==
  \/ Submit
  \/ \E o \in {"neterr", "badtool", "ok"}, s \in {"A", NoSession}, d \in BOOLEAN :
        SubmitResponse(o, s, d)
  \/ SubmitCooldown
  \/ Reset
  \/ Commit
  \/ \E e \in TaskEvents : Emit(e)
  \/ DropClosed
  \/ Deliver
  \/ StopClick
  \/ \E ok \in BOOLEAN : StopResponse(ok)

Spec == Init /\ [][NextTask]_vars

\* The event stream and the timeline over two sessions, with the clock
\* standing still.
NextStream ==
  \/ Submit
  \/ \E o \in {"neterr", "ok"}, s \in Sessions : SubmitResponse(o, s, TRUE)
  \/ SubmitCooldown
  \/ Commit
  \/ \E e \in StreamEvents : Emit(e)
  \/ EmitUnstamped(EvReasoning)
  \/ DropClosed
  \/ Deliver

SpecStream == Init /\ [][NextStream]_vars

\* The starts and answers of the tasks of one session, with a running clock.
NextTimed ==
  \/ Tick
  \/ Submit
  \/ SubmitResponse("ok", "A", FALSE)
  \/ SubmitCooldown
  \/ Commit
  \/ \E e \in TimedEvents : Emit(e)
  \/ Deliver

SpecTimed == Init /\ [][NextTimed]_vars

\* The submit handler alone: accepted and ignored submits, every way the
\* router request can end, and the reset of the chat.
NextSubmit ==
  \/ Tick
  \/ Submit
  \/ \E hasInput \in BOOLEAN : SubmitIgnored(hasInput)
  \/ \E o \in {"neterr", "badtool", "ok"}, s \in {"A", NoSession}, d \in BOOLEAN :
        SubmitResponse(o, s, d)
  \/ SubmitCooldown
  \/ Reset
  \/ Commit

SpecSubmit == Init /\ [][NextSubmit]_vars

\* The ways a task of one session is reported done, with the clock standing
\* still.
NextDone ==
  \/ Submit
  \/ SubmitResponse("ok", "A", FALSE)
  \/ SubmitCooldown
  \/ Commit
  \/ \E e \in DoneEvents : Emit(e)
  \/ Deliver

SpecDone == Init /\ [][NextDone]_vars

\* The timeline of one session under events the filter has to decide.
NextTimeline ==
  \/ Submit
  \/ SubmitResponse("ok", "A", TRUE)
  \/ SubmitCooldown
  \/ Commit
  \/ \E e \in FilterEvents : Emit(e)
  \/ EmitUnstamped(EvOddNode)
  \/ Deliver

SpecTimeline == Init /\ [][NextTimeline]_vars

\* The timeline of one session under one event for each rule of the
\* normalizer.
NextNormalize ==
  \/ Submit
  \/ SubmitResponse("ok", "A", TRUE)
  \/ SubmitCooldown
  \/ Commit
  \/ \E e \in NormalizeEvents : Emit(e)
  \/ Deliver

SpecNormalize == Init /\ [][NextNormalize]_vars

\* One session's channel carrying messages the handler throws on.
NextFaulty ==
  \/ Submit
  \/ SubmitResponse("ok", "A", FALSE)
  \/ SubmitCooldown
  \/ Commit
  \/ \E e \in FaultyEvents : Emit(e)
  \/ Deliver

SpecFaulty == Init /\ [][NextFaulty]_vars

\* Questions and answers streamed over one session while the clock advances.
NextAnswerTime ==
  \/ Tick
  \/ Submit
  \/ SubmitResponse("ok", "A", FALSE)
  \/ SubmitCooldown
  \/ Commit
  \/ \E e \in AnswerTimeEvents : Emit(e)
  \/ Deliver

SpecAnswerTime == Init /\ [][NextAnswerTime]_vars

\* Screenshots streamed over one session while the clock advances.
NextShots ==
  \/ Tick
  \/ Submit
  \/ SubmitResponse("ok", "A", FALSE)
  \/ SubmitCooldown
  \/ Commit
  \/ \E e \in ShotEvents : Emit(e)
  \/ Deliver

SpecShots == Init /\ [][NextShots]_vars

\* Several thinking episodes of one session while the clock advances.
NextEpisodes ==
  \/ Tick
  \/ Submit
  \/ SubmitResponse("ok", "A", FALSE)
  \/ SubmitCooldown
  \/ Commit
  \/ \E e \in EpisodeEvents : Emit(e)
  \/ Deliver

SpecEpisodes == Init /\ [][NextEpisodes]_vars

\* The life of one session: it is assigned, used, reset and terminated.
NextSession ==
  \/ Submit
  \/ \E d \in BOOLEAN : SubmitResponse("ok", "A", d)
  \/ SubmitCooldown
  \/ Reset
  \/ TerminateCall
  \/ \E sid \in Sessions, ok \in BOOLEAN : TerminateResponse(sid, ok)
  \/ Commit
  \/ \E e \in SessionEvents : Emit(e)
  \/ DropClosed
  \/ Deliver

SpecSession == Init /\ [][NextSession]_vars

\* The connection state of the push channel over two sessions.
NextChannel ==
  \/ Submit
  \/ \E s \in Sessions : SubmitResponse("ok", s, TRUE)
  \/ SubmitCooldown
  \/ Commit
  \/ ChannelOpen
  \/ \E c \in Sessions, closed \in BOOLEAN : ChannelError(c, closed)
  \/ \E e \in ChannelEvents : Emit(e)
  \/ DropClosed
  \/ Deliver

SpecChannel == Init /\ [][NextChannel]_vars


\* The browser hand-off while the task is idle.  It starts where a first
\* request was answered directly and session A is connected.
InitBrowser ==
  /\ now = 1
  /\ sessionId = "A" /\ isThinking = FALSE /\ thinkingStartTime = 0
  /\ isLoading = FALSE /\ isSubmitting = FALSE /\ messages = <<"user", "assistant">>
  /\ submitReq = NoRequest /\ terminateReq = {}
  /\ canStopAgent = FALSE /\ acIsLoading = FALSE /\ isStopInProgress = FALSE
  /\ stopInFlight = 0 /\ stopCommands = 0 /\ episodeStops = 0
  /\ thoughts = <<Entry([id |-> generateId("user-question"),
                         type |-> "question", node |-> "User",
                         category |-> "user_input", content |-> "ask",
                         ts |-> 1, pms |-> 0, shot |-> 0], "local")>>
  /\ thoughtsRef = thoughts /\ connected = FALSE
  /\ streamError = FALSE /\ isComplete = FALSE /\ screenshots = {}
  /\ eventSourceRef = "A" /\ previousSessionRef = "A" /\ live = {"A"}
  /\ effSession = "A" /\ wire = <<>> /\ lastEv = "other"
  /\ hasActiveSession = FALSE /\ browserState = NoBrowserState
  /\ bcIsLoading = FALSE /\ isUserControlInProgress = FALSE
  /\ lastBrowserState = NoUrl /\ ctl = [h \in Handlers |-> IdleCtl] /\ notes = {}
  /\ statusReqs = {"A"}
  /\ remote = [alive |-> FALSE, headless |-> TRUE, url |-> NoUrl]

NextBrowser ==
  \/ \E u \in Urls : RemoteNavigate(u)
  \/ RemoteStart
  \/ RemoteBrowserDies
  \/ RefreshStatus
  \/ \E sid \in Sessions, o \in StatusOutcomes : StatusResponse(sid, o)
  \/ \E h \in Handlers : TakeControlClick(h)
  \/ \E h \in Handlers, ok \in BOOLEAN, o \in StatusOutcomes :
        TakeControlResponse(h, ok, o)
  \/ \E h \in Handlers : ReleaseControlClick(h)
  \/ \E h \in Handlers, ok \in BOOLEAN, o \in StatusOutcomes :
        ReleaseControlResponse(h, ok, o)
  \/ \E h \in Handlers, o \in StatusOutcomes : ReleaseRepolled(h, o)
  \/ \E h \in Handlers, ok \in BOOLEAN, o \in StatusOutcomes :
        ReleaseDecide(h, ok, o)
  \/ \E h \in Handlers : CloseBrowserClick(h)
  \/ \E h \in Handlers, ok \in BOOLEAN, o \in StatusOutcomes :
        CloseBrowserResponse(h, ok, o)

SpecBrowser == InitBrowser /\ [][NextBrowser]_vars

\* The control operations on a browser that is started without a page and
\* opens one page.
\* Browser-status requests while the session is reset or replaced.
NextStatus ==
  \/ RemoteStart
  \/ RemoteBrowserDies
  \/ RefreshStatus
  \/ \E sid \in Sessions, o \in StatusOutcomes : StatusResponse(sid, o)
  \/ Submit
  \/ \E s \in Sessions : SubmitResponse("ok", s, TRUE)
  \/ SubmitCooldown
  \/ Reset
  \/ Commit

SpecStatus == InitBrowser /\ [][NextStatus]_vars

NextControl ==
  \/ RemoteNavigate("https://a.test")
  \/ RemoteStart
  \/ RemoteBrowserDies
  \/ RefreshStatus
  \/ \E o \in StatusOutcomes : StatusResponse("A", o)
  \/ \E h \in Handlers : TakeControlClick(h)
  \/ \E h \in Handlers, ok \in BOOLEAN, o \in StatusOutcomes :
        TakeControlResponse(h, ok, o)
  \/ \E h \in Handlers : ReleaseControlClick(h)
  \/ \E h \in Handlers, ok \in BOOLEAN, o \in StatusOutcomes :
        ReleaseControlResponse(h, ok, o)
  \/ \E h \in Handlers, o \in StatusOutcomes : ReleaseRepolled(h, o)
  \/ \E h \in Handlers, ok \in BOOLEAN, o \in StatusOutcomes :
        ReleaseDecide(h, ok, o)
  \/ \E h \in Handlers : CloseBrowserClick(h)
  \/ \E h \in Handlers, ok \in BOOLEAN, o \in StatusOutcomes :
        CloseBrowserResponse(h, ok, o)

SpecControl == InitBrowser /\ [][NextControl]_vars

\* ------------------------------------------------------------ the claims
\* The step hands the event e (whatever its timestamp) to handleEventData.
Delivering(e) == Deliver /\ wire # <<>> /\ [Head(wire).ev EXCEPT !.ts = 0] = e

StopAnswered == \E ok \in BOOLEAN : StopResponse(ok)

\* A stop request was sent and the task it was sent for has not been reported
\* ended: the request is unanswered, or it was acknowledged (isStopInProgress).
StopOutstanding == stopInFlight > 0 \/ isStopInProgress

\* The episode is over: idle, no stop requested, stop not offered.
Resolved == ~isThinking /\ ~isStopInProgress /\ ~StopEnabled

\* C1: when a release fails after a take with a saved snapshot and the status
\* asked for again reports no active browser, the handler (the backend being
\* able to start a browser) ends with a headless browser at the snapshot's
\* URL, the "recovered" notification and no snapshot.
C1_Recovery ==
  [][\A h \in Handlers :
       (/\ ReleaseDecide(h, TRUE, "success")
        /\ ctl[h].polled = "inactive" /\ ctl[h].saved # NoUrl)
       => /\ remote'.alive /\ remote'.headless /\ remote'.url = ctl[h].saved
          /\ "recovered" \in notes'
          /\ lastBrowserState' = NoUrl]_vars

\* C2: within one thinking episode at most one stop command is sent to the
\* backend, however often stop is invoked and also when the second invocation
\* comes before the first request was answered.
C2_OneStopPerEpisode == episodeStops <= 1

ControlPlaneTypes == {"connected", "error", "complete", "task_status", "ping",
                      "heartbeat"}
RecognizedTypes == {"thought", "reasoning", "tool_call", "tool_result", "question",
                    "visualization", "thinking", "rationale", "error", "answer",
                    "result", "browser_status", "others", "user_control"}
RecognizedNodes == {"User", "Browser", "Agent", "NovaAct", "Answer", "complete",
                    "Router", "Others", "User Control"}
Rejected(e) ==
  /\ e.type \notin RecognizedTypes
  /\ e.node \notin RecognizedNodes
  /\ e.category \notin {"screenshot", "visualization_data", "user_control"}
Counted(e) == e.type \notin ControlPlaneTypes /\ ~Rejected(e)

C4_TimelineGrowth ==
  /\ [][Deliver => Len(thoughts') = Len(thoughts)
                     + (IF Counted(Head(wire).ev) THEN 1 ELSE 0)]_vars
  /\ [](\A i \in 1..Len(thoughts) : thoughts[i].type \notin {"ping", "heartbeat"})

C4_Witness ==
  /\ lastEv = "filtered"
  /\ \E i \in 1..Len(thoughts) : thoughts[i].src # "local"

\* C5: a task_status start delivered right after another one changes nothing:
\* the task is thinking before and after it, and the start marker, the stop
\* flags and the timeline are as the first delivery left them.
C5_StartIdempotent ==
  [][(Delivering(EvStart) /\ lastEv \in {"start", "start_again"})
       => /\ isThinking /\ isThinking'
          /\ UNCHANGED <<thinkingStartTime, canStopAgent, isStopInProgress,
                         messages, thoughts>>]_vars

C5_Witness == lastEv = "start_again" /\ isThinking /\ now > 1

\* C6: of the Answers that follow one question only the first carries a
\* processing time, and it is the Answer's timestamp minus the question's.
C6_OneTimedAnswer ==
  \A i, j \in 1..Len(thoughts) :
    (i < j /\ thoughts[i].pms > 0 /\ thoughts[j].pms > 0)
      => \E k \in (i + 1)..(j - 1) : thoughts[k].type = "question"

\* C7: stop is offered exactly when the task is thinking and no stop request
\* is outstanding.
C7_CanStopIff == StopEnabled <=> (isThinking /\ ~StopOutstanding)

\* C8: handling a local stop request never takes the task from thinking to
\* idle; only a completion or a stopped report of the backend does.
C8_StopKeepsThinking ==
  [][(StopClick \/ StopAnswered) => (isThinking => isThinking')]_vars

\* C9: a task_status stopped that arrives while a stop is outstanding leaves
\* the task idle and the stop-requested flag cleared.
C9_StoppedEndsTask ==
  [][(Delivering(EvStopped) /\ StopOutstanding)
       => (~isThinking' /\ ~isStopInProgress')]_vars

\* C10: with a stop outstanding, the first of completion and stop
\* acknowledgement resolves the episode, and a later one finds it resolved
\* and leaves it so.
C10_FirstSignalResolves ==
  [][((Delivering(EvComplete) \/ Delivering(EvStopped))
        /\ (StopOutstanding \/ Resolved))
       => Resolved']_vars

\* C16: at most one push channel is open at any time, and a step that opens a
\* channel leaves no earlier channel open.
C16_OneLiveChannel ==
  /\ [][\A c \in live' \ live : live' = {c}]_vars
  /\ [](Cardinality(live) <= 1)

C16_Witness == live = {"B"} /\ statusReqs = {"A", "B"} /\ wire # <<>>

\* C17: once the session effects have run for a non-empty session id, exactly
\* one channel is open and it is that session's, also when the id was cleared
\* and set again.
C17_OneConnectionPerSession ==
  (sessionId # NoSession /\ sessionId = effSession) => live = {sessionId}

\* The outcomes of the router request that the catch block handles.
FailedOutcomes == {"neterr", "badtool"}

\* C11: when the router request fails (the request or its response fails, or
\* the response names no known handler) the task is idle afterwards, the start
\* marker is cleared and an error entry is appended to the messages.
C11_FailedSubmitIdle ==
  [][\A o \in FailedOutcomes, s \in {"A", NoSession}, d \in BOOLEAN :
       SubmitResponse(o, s, d) =>
         /\ ~isThinking' /\ thinkingStartTime' = 0
         /\ messages' = Append(messages, "error")]_vars

\* A response without a handler failed after it had set the session id.
C11_Witness ==
  /\ submitReq.pc = "cooldown" /\ ~isThinking /\ thinkingStartTime = 0
  /\ messages # <<>> /\ messages[Len(messages)] = "error"
  /\ sessionId = "A" /\ effSession = NoSession

\* The step that sends a router request.
RequestSent == submitReq'.pc = "sent" /\ submitReq # submitReq'

\* C14: the step that sends the router request has appended the local question
\* stamped with the current time, entered thinking and recorded the start
\* marker; while the request is in flight its question is in the timeline.
C14_QuestionBeforeRequest ==
  /\ [][RequestSent =>
          /\ Len(thoughts') = Len(thoughts) + 1
          /\ SubSeq(thoughts', 1, Len(thoughts)) = thoughts
          /\ LET q == thoughts'[Len(thoughts')]
             IN q.type = "question" /\ q.src = "local" /\ q.ts = now
          /\ isThinking' /\ thinkingStartTime' = now]_vars
  /\ [](submitReq.pc = "sent" =>
          /\ LastQuestion(thoughts) # 0
          /\ thoughts[LastQuestion(thoughts)].src = "local")

\* A second question was sent later than the first.
C14_Witness ==
  /\ submitReq.pc = "sent" /\ LastQuestion(thoughts) = 2
  /\ thoughts[2].ts = 1 /\ thinkingStartTime = 1 /\ isThinking

\* A step that appends a local question to the timeline.
QuestionAdded ==
  /\ Len(thoughts') = Len(thoughts) + 1
  /\ thoughts'[Len(thoughts')].src = "local"

CompletionEvents == {EvComplete, EvAnswer, EvAnswerEmpty, EvChart}

\* The event at the head of the wire came over the channel of the current
\* session.
FromCurrentSession == wire # <<>> /\ Head(wire).sid = sessionId

\* C12: while the task is thinking, a complete status, an answer or a chart
\* of the current session leaves the task idle with the start marker cleared.
C12_CompletionEndsThinking ==
  [][\A e \in CompletionEvents :
       Delivering(e) /\ isThinking /\ FromCurrentSession =>
         ~isThinking' /\ thinkingStartTime' = 0]_vars

\* C13: a complete status that carries a final answer, arriving while the task
\* is thinking, appends an answer to the timeline, leaves the task idle and
\* the stop affordance disabled.
C13_FinalAnswerAppended ==
  [][Delivering(EvCompleteFinal) /\ isThinking /\ FromCurrentSession =>
       /\ ~isThinking' /\ ~canStopAgent'
       /\ Len(thoughts') = Len(thoughts) + 1
       /\ LET a == thoughts'[Len(thoughts')]
          IN a.node = "Answer" \/ a.type = "answer"]_vars

\* C18: an event that arrives over the channel of a session other than the
\* current one changes neither the thinking flag and the start marker nor the
\* can-stop and stop-requested flags.
C18_StaleEventsIgnored ==
  [][Deliver /\ wire # <<>> /\ Head(wire).sid # sessionId =>
       UNCHANGED <<isThinking, thinkingStartTime, canStopAgent,
                   isStopInProgress>>]_vars

\* The transport of some channel failed and the channel is retried / given up.
TransportRetry == \E c \in Sessions : ChannelError(c, FALSE)
TransportClosed == \E c \in Sessions : ChannelError(c, TRUE)

\* C19: a transport error of a channel that is retried leaves the connected
\* flag alone, one of a channel that is given up clears it, and nothing else
\* clears it; a connected event sets the flag and clears the error; a complete
\* event marks the stream finished and leaves every channel open.
C19_ConnectedFlag ==
  /\ [][TransportRetry => UNCHANGED <<connected, streamError>>]_vars
  /\ [][TransportClosed => ~connected' /\ streamError']_vars
  /\ [][connected /\ ~connected' => TransportClosed]_vars
  /\ [][Delivering(EvConnected) => connected' /\ ~streamError']_vars
  /\ [][Delivering(EvStreamDone) => isComplete' /\ live' = live]_vars

\* After the stream was marked finished, a transport error of the channel
\* that is still open was retried with the connected flag on.
C19_Witness ==
  lastEv = "transport_retry" /\ connected /\ isComplete /\ live = {"B"}

\* The browser control status the interface shows.
ControlStatus ==
  IF isUserControlInProgress THEN "transitioning"
  ELSE IF sessionId = NoSession \/ ~hasActiveSession THEN "no-active-session"
  ELSE IF ~browserState.present THEN "unknown"
  ELSE IF browserState.is_headless THEN "headless"
  ELSE "user-controlled"

\* The step sends a take-control / release-control request.
TakeIssued == \E h \in Handlers : TakeControlClick(h)
ReleaseIssued == \E h \in Handlers : ReleaseControlClick(h)

\* C20: a take-control request is sent only in status headless and a
\* release-control request only in status user-controlled.
C20_ControlGated ==
  [][/\ TakeIssued => ControlStatus = "headless"
     /\ ReleaseIssued => ControlStatus = "user-controlled"]_vars

\* C21: a take-control request that fails leaves the browser state and the
\* active-session flag as they were, clears the loading and in-progress flags
\* and reports the error.
C21_TakeFailureKeepsStatus ==
  [][\A h \in Handlers, o \in StatusOutcomes :
       TakeControlResponse(h, FALSE, o) =>
         /\ UNCHANGED <<browserState, hasActiveSession>>
         /\ ~bcIsLoading' /\ ~isUserControlInProgress'
         /\ notes' = {"take_control_error"}]_vars

\* A take-control request has failed and the status is still headless.
C21_Witness ==
  /\ notes = {"take_control_error"} /\ \A h \in Handlers : ctl[h].pc = "idle"
  /\ hasActiveSession /\ browserState.present /\ browserState.is_headless
  /\ ~bcIsLoading /\ ~isUserControlInProgress /\ lastBrowserState # NoUrl

\* C22: a failing release request reports its error; when the handler then
\* has no snapshot, or the reinitialization fails, it reports the release as
\* failed, shows no "recovered" notification and keeps the snapshot.
C22_ReleaseFailureSurfaced ==
  [][\A h \in Handlers, o \in StatusOutcomes :
       /\ ReleaseControlResponse(h, FALSE, o) =>
            "release_control_error" \in notes'
       /\ \A initOk \in BOOLEAN :
            (ReleaseDecide(h, initOk, o) /\ (ctl[h].saved = NoUrl \/ ~initOk)) =>
              /\ "release_failed" \in notes'
              /\ "recovered" \in notes' => "recovered" \in notes
              /\ UNCHANGED lastBrowserState]_vars

\* A release failed for a browser that was taken over without a snapshot.
C22_Witness ==
  /\ {"release_control_error", "release_failed"} \subseteq notes
  /\ "recovered" \notin notes /\ lastBrowserState = NoUrl
  /\ \A h \in Handlers : ctl[h].pc = "idle"

StatusRequested == \E s \in Sessions : s \in statusReqs' \ statusReqs

\* A take, release or close request is unanswered.
ControlInFlight == \E h \in Handlers : ctl[h].pc \in {"take", "release", "close"}

\* C24: no browser-status refresh is requested while the task is thinking or
\* a take, release or close request is in flight.
C24_RefreshSuppressed ==
  [][StatusRequested => ~isThinking /\ ~ControlInFlight]_vars

\* C25: a stop request that fails while the task is thinking leaves the task
\* thinking, the stop-requested flag unset and stop available again.
C25_FailedStopRestores ==
  [][(StopResponse(FALSE) /\ isThinking) =>
       isThinking' /\ ~isStopInProgress' /\ canStopAgent']_vars

\* C26: without a reset in between, a session id that was assigned is not
\* replaced by the different id of a later response.
C26_SessionAssignedOnce ==
  [][(sessionId # NoSession /\ sessionId' # NoSession) =>
       sessionId' = sessionId]_vars

\* C27: once a terminate request has succeeded and the effects have run, there
\* is no session id, the task is idle, and the timeline and the screenshot
\* store are empty.
C27_TerminateClears ==
  (lastEv = "terminated" /\ ~PendingCommit) =>
    /\ sessionId = NoSession /\ ~isThinking
    /\ thoughts = <<>> /\ screenshots = {}

\* C28: a reset leaves no session id, the task idle, the start marker cleared
\* and no messages, and sends nothing to the backend; nor do the effects that
\* run after it.
C28_ResetLocal ==
  /\ [][Reset =>
          /\ sessionId' = NoSession /\ ~isThinking' /\ thinkingStartTime' = 0
          /\ messages' = <<>>
          /\ UNCHANGED <<submitReq, terminateReq, statusReqs, stopInFlight,
                         stopCommands>>]_vars
  /\ [][(Commit /\ sessionId = NoSession) =>
          UNCHANGED <<submitReq, terminateReq, statusReqs, stopInFlight,
                      stopCommands>>]_vars

\* A thinking task with a session was reset and the effects have run.
C28_Witness ==
  /\ sessionId = NoSession /\ effSession = NoSession
  /\ previousSessionRef = "A" /\ live = {} /\ messages = <<>>
  /\ ~isThinking /\ thoughts # <<>> /\ terminateReq = {} /\ lastEv = "reset"
  /\ screenshots # {}

\* C29: every entry of the timeline has a non-empty id and a timestamp; and
\* while the session of the channel stays the same, a step leaves the timeline
\* alone or appends exactly one entry at its end, keeping every earlier entry
\* as it was; an entry appended by the stream handler is the entry of the
\* event at the head of the arrival queue.
C29_TimelineWellFormed ==
  /\ [](\A i \in DOMAIN thoughts : thoughts[i].id # "" /\ thoughts[i].ts # 0)
  /\ [][effSession' = effSession =>
          \/ thoughts' = thoughts
          \/ /\ Len(thoughts') = Len(thoughts) + 1
             /\ SubSeq(thoughts', 1, Len(thoughts)) = thoughts
             /\ Deliver =>
                  LET new == thoughts'[Len(thoughts')]
                      data == Head(wire).ev
                  IN /\ new.src = Head(wire).sid
                     /\ new.ts = IF data.ts = 0 THEN now ELSE data.ts]_vars

\* A timeline holding a question followed by two streamed entries of the
\* current session.
C29_Witness ==
  /\ Len(thoughts) = 3 /\ thoughts[1].src = "local"
  /\ thoughts[2].src = sessionId /\ thoughts[3].src = sessionId
  /\ thoughts[2].id # thoughts[1].id /\ effSession = sessionId

\* C30: an event that is not a control-plane event is dropped, leaving the
\* timeline, the screenshots and the conversation as they were, exactly when
\* its type is not recognized and its node is not recognized and its category
\* is none of screenshot, visualization_data, user_control; every other such
\* event is normalized and appended as the last entry of the timeline.
C30_FilterPredicate ==
  [][(Deliver /\ Head(wire).ev.type \notin ControlPlaneTypes) =>
       LET e == Head(wire).ev
           new == thoughts'[Len(thoughts')]
       IN IF Rejected(e)
          THEN /\ lastEv' = "filtered"
               /\ UNCHANGED <<thoughts, screenshots, messages>>
          ELSE /\ lastEv' # "filtered"
               /\ thoughts' = Append(thoughts, new)
               /\ new.src = Head(wire).sid /\ new.id # ""
               /\ new.content = e.content]_vars

\* The timeline ends with an event kept for its category alone, and the event
\* delivered after it was dropped.
C30_Witness ==
  /\ lastEv = "filtered" /\ Len(thoughts) = 2
  /\ thoughts[2].content = EvOddShot.content /\ thoughts[2].src = "A"

\* C31: the entry appended for an event has the node and the category of the
\* first rule that matches, in the order question, screenshot-bearing, tool
\* call with a tool name, tool result with a tool name, reasoning (category
\* analysis, node Agent unless given), user control (node User Control), and
\* otherwise the node found in the node hint (Others when none is found).
RuleOf(e) ==
  IF e.type = "question" THEN "question"
  ELSE IF \/ e.type = "visualization" \/ e.category = "screenshot"
          \/ (e.category = "visualization_data" /\ e.shot) THEN "screenshot"
  ELSE IF e.type = "tool_call" /\ e.tool # "" THEN "tool_call"
  ELSE IF e.type = "tool_result" /\ e.tool # "" THEN "tool_result"
  ELSE IF e.type \in {"reasoning", "thinking", "rationale"} THEN "reasoning"
  ELSE IF e.type = "user_control" \/ e.category = "user_control" THEN "user_control"
  ELSE "default"

RuleNode(e) ==
  CASE RuleOf(e) = "question" -> "User"
    [] RuleOf(e) = "screenshot" -> "Browser"
    [] RuleOf(e) = "tool_call" -> "Agent"
    [] RuleOf(e) = "tool_result" -> "NovaAct"
    [] RuleOf(e) = "reasoning" -> IF e.node = "" THEN "Agent" ELSE e.node
    [] RuleOf(e) = "user_control" -> "User Control"
    [] OTHER -> IF e.node \in NodeHasBrowser THEN "Browser"
                ELSE IF e.node \in NodeHasNovaOrAct THEN "NovaAct"
                ELSE IF e.node \in NodeHasAgentOrLlm THEN "Agent"
                ELSE "Others"

RuleCategory(e) ==
  CASE RuleOf(e) = "question" -> "user_input"
    [] RuleOf(e) = "screenshot" -> "screenshot"
    [] RuleOf(e) \in {"tool_call", "tool_result"} -> "tool"
    [] RuleOf(e) = "reasoning" -> "analysis"
    [] OTHER -> e.category

C31_Classification ==
  [][(Deliver /\ ~Intercepted(Head(wire).ev) /\ ~shouldFilterEvent(Head(wire).ev)) =>
       LET e == Head(wire).ev
           new == thoughts'[Len(thoughts')]
       IN new.node = RuleNode(e) /\ new.category = RuleCategory(e)]_vars

\* C32: a message whose handling throws appends nothing and leaves the
\* timeline, the task state and the connection as they were, its channel
\* stays open, and the well-formed event delivered next on that channel is
\* handled: a Thought event among them is appended.
Failing(e) == e \in {EvBadJson, EvNull, EvBadNode, EvShotBadContent}
C32_FailureNonFatal ==
  [][/\ \A e \in FaultyEvents :
          ((Delivering(e) /\ Failing(e)) =>
             (/\ UNCHANGED <<thoughts, isThinking, thinkingStartTime, messages,
                             canStopAgent, isStopInProgress, connected,
                             streamError, isComplete, live, eventSourceRef>>
              /\ lastEv' = "failed"))
      /\ ((lastEv = "failed" /\ Delivering(EvReasoning)) =>
            (/\ Len(thoughts') = Len(thoughts) + 1
             /\ thoughts'[Len(thoughts')].content = EvReasoning.content))
      /\ ((lastEv = "failed" /\ Delivering(EvStart)
             /\ effSession = Head(wire).sid) => isThinking')]_vars

\* A failing message was dropped while the task is thinking, and a
\* well-formed event is next on the same, still open channel.
C32_Witness ==
  /\ lastEv = "failed" /\ isThinking /\ wire # <<>>
  /\ Head(wire).sid \in live /\ ~Failing([Head(wire).ev EXCEPT !.ts = 0])
  /\ Len(thoughts) < MaxThoughts

\* C33: the entry appended for an Answer carries no processing time when the
\* timeline holds no question before it, and none when the Answer's
\* timestamp minus the timestamp of the last question of the timeline is
\* zero or less.
C33_ProcessingTimeGuards ==
  [][\A e \in {EvAnswer, EvAnswerBare} :
       (Delivering(e) /\ Throws(Head(wire).ev) = "none") =>
         LET q == LastQuestion(thoughts)
             new == thoughts'[Len(thoughts')]
             ats == IF Head(wire).ev.ts = 0 THEN now ELSE Head(wire).ev.ts
         IN (q = 0 \/ ats - thoughts[q].ts <= 0) => new.pms = 0]_vars

\* C34: a screenshot event adds exactly one entry to the screenshot store,
\* holding the event's payload under the key the appended Thought refers to,
\* and keeps every entry the store had; any other event leaves the store as
\* it was.
C34_ScreenshotStore ==
  [][\A e \in ShotEvents :
       Delivering(e) =>
         IF e.shot
         THEN /\ screenshots \subseteq screenshots'
              /\ Cardinality(screenshots') = Cardinality(screenshots) + 1
              /\ [key |-> thoughts'[Len(thoughts')].shot, data |-> e.img]
                   \in screenshots'
         ELSE UNCHANGED screenshots]_vars

\* C35: while the task is thinking after a local submit the start marker is
\* set, and a step that clears the marker leaves the task idle.
C35_StartMarkerKept ==
  /\ [](isThinking => thinkingStartTime # 0)
  /\ [][(thinkingStartTime # 0 /\ thinkingStartTime' = 0) => ~isThinking']_vars

\* C36: the response of a submission that arrives right after a reset or a
\* successful terminate assigns no session id, appends no message and leaves
\* the task state as it is.
C36_LateResponseIgnored ==
  [][\A o \in {"neterr", "badtool", "ok"}, s \in Sessions \cup {NoSession},
        d \in BOOLEAN :
       (lastEv \in {"reset", "terminated"} /\ SubmitResponse(o, s, d)) =>
         UNCHANGED <<sessionId, messages, isThinking>>]_vars

\* C37: a task_status complete that was sent before the question of the
\* current thinking episode was asked leaves that episode thinking.
C37_StaleCompletionIgnored ==
  [][(/\ Delivering(EvComplete) /\ isThinking
      /\ LastQuestion(thoughts) # 0
      /\ Head(wire).ev.ts < thoughts[LastQuestion(thoughts)].ts) => isThinking']_vars

\* C38: at most one take-control or release-control operation is under way
\* at any time, and the user-control flag is set exactly while one is.
ControlUnderWay == {h \in Handlers : ctl[h].pc \notin {"idle", "close"}}
C38_OneControlInFlight ==
  /\ Cardinality(ControlUnderWay) <= 1
  /\ isUserControlInProgress <=> ControlUnderWay # {}

\* C39: the response to a status request made for another session than the
\* current one, or arriving when there is no session, changes neither
\* hasActiveSession nor the browser state; with no session, once the effects
\* have run, hasActiveSession is false and the browser state is unset.
C39_StatusForCurrentSession ==
  /\ [][\A sid \in Sessions, o \in StatusOutcomes :
          (StatusResponse(sid, o) /\ sid # sessionId) =>
             UNCHANGED <<hasActiveSession, browserState>>]_vars
  /\ []((sessionId = NoSession /\ ~PendingCommit) =>
          (~hasActiveSession /\ browserState = NoBrowserState))

\* C40: when the response of a submission has been processed and the effects
\* have run, the question that submission put into the timeline is still
\* there.
C40_QuestionKept ==
  (submitReq.pc = "cooldown" /\ ~PendingCommit) =>
    \E i \in DOMAIN thoughts :
      thoughts[i].type = "question" /\ thoughts[i].src = "local"

====
